---- MODULE Spec2Model ----
(***************************************************************************)
(* Model of api/index.py: a Flask facade over yt-dlp.  Every route handler *)
(* is a sequence of steps on two shared resources, the in-memory response  *)
(* cache (flask_caching "simple" backend) and the thread pool that runs    *)
(* the blocking extract_info calls.  A handler is split exactly where it   *)
(* touches a shared resource or blocks: cache.delete, cache.get (with the  *)
(* parameter check and the submit that follow it), the wait on the future  *)
(* and the tail that shapes the result, stores it and responds.            *)
(*                                                                         *)
(* The extraction library and the search provider are external: what they  *)
(* return is a nondeterministic choice among the shapes they can produce   *)
(* (a dict, a dict with an 'entries' list, None, an exception).  Every     *)
(* extraction result carries the number of the request that submitted it,  *)
(* so a recomputed value is never mistaken for a cached one.               *)
(***************************************************************************)
EXTENDS Integers, Sequences, FiniteSets, TLC

\* ------------------------------------------------------------------ bounds
\* request slots: the requests of one behaviour, numbered in arrival order
NReq == 2
\* longest 'formats' list handed to build_formats_list
MaxFormats == 2
\* longest duration string handed to to_iso_duration
MaxLen == 4
\* most decimal digits of a byte count handed to format_size
MaxDigits == 10

Slot == 1..NReq

\* ------------------------------------------------------------------ routes
HOME == "/"
FAST_META == "/api/fast-meta"
ALL == "/api/all"
META == "/api/meta"
CHANNEL == "/api/channel"
PLAYLIST == "/api/playlist"
INSTAGRAM == "/api/instagram"
TWITTER == "/api/twitter"
TIKTOK == "/api/tiktok"
FACEBOOK == "/api/facebook"
DOWNLOAD == "/download"
AUDIO == "/api/audio"
VIDEO == "/api/video"

Social == {INSTAGRAM, TWITTER, TIKTOK, FACEBOOK}
\* routes whose handler calls cache.delete / cache.get / cache.set itself
Explicit == {HOME, FAST_META, META, CHANNEL, PLAYLIST} \cup Social
\* routes without any cache
Uncached == {ALL, AUDIO, VIDEO}
Routes == Explicit \cup Uncached \cup {DOWNLOAD}
\* routes whose handler body sits in try/except Exception
Guarded == {FAST_META, CHANNEL, PLAYLIST} \cup Social

\* values a query parameter is given ("" is an absent or empty parameter)
ParamVals == {"", "a"}
\* /api/fast-meta and /api/meta join both parameters with ':' in their key:
\* they are also given a 'search' and a 'url' that contain the separator
SearchValsOf(route) ==
  IF route \in {FAST_META, META} THEN ParamVals \cup {"a:"} ELSE ParamVals
UrlValsOf(route) ==
  IF route \in {FAST_META, META} THEN ParamVals \cup {":"} ELSE ParamVals
AllParamVals == ParamVals \cup {"a:", ":"}

STREAM_TIMEOUT == 18000

\* timeout each route hands to extract_info: <<seconds>>, or <<>> for None
TimeoutOf(route) ==
  CASE route \in {FAST_META, META} -> <<6>>
    [] route \in {ALL, AUDIO, VIDEO} -> <<30>>
    [] route \in {CHANNEL} \cup Social -> <<20>>
    [] route = PLAYLIST -> <<60>>
    [] OTHER -> <<>>
HasTimeout_Never(route) == FALSE

HasTimeout(route) == TimeoutOf(route) # <<>>

\* ------------------------------------------------------------------ cache keys
\* request.full_path of /download: the path, "?" and the query string
Amp(a, b) == IF a = "" THEN b ELSE IF b = "" THEN a ELSE a \o "&" \o b
QueryString(q, u, latest) ==
  Amp(Amp(IF u = "" THEN "" ELSE "url=" \o u,
          IF q = "" THEN "" ELSE "search=" \o q),
      IF latest THEN "latest=1" ELSE "")
FullPath(q, u, latest) == "/download?" \o QueryString(q, u, latest)

Or(a, b) == IF a # "" THEN a ELSE b

KeyOf(route, q, u, latest) ==
  CASE route = HOME -> "home"
    [] route = FAST_META -> "fast_meta:" \o q \o ":" \o u
    [] route = META -> "meta:" \o q \o ":" \o u
    [] route = CHANNEL -> "channel:" \o Or(q, u)
    [] route = PLAYLIST -> "playlist:" \o Or(q, u)
    [] route = INSTAGRAM -> "instagram:" \o u
    [] route = TWITTER -> "twitter:" \o u
    [] route = TIKTOK -> "tiktok:" \o u
    [] route = FACEBOOK -> "facebook:" \o u
    [] route = DOWNLOAD -> "download:" \o FullPath(q, u, latest)
    [] OTHER -> ""

\* ------------------------------------------------------------------ values
\* what the blocking call hands back: a dict (has = it carries an 'entries'
\* key, entries = that list, null = the key holds None), None, or an
\* exception
ResDict(n) ==
  [kind |-> "dict", by |-> n, has |-> FALSE, null |-> FALSE, entries |-> <<>>]
ResEntries(n, es) ==
  [kind |-> "dict", by |-> n, has |-> TRUE, null |-> FALSE, entries |-> es]
ResEntriesNull(n) ==
  [kind |-> "dict", by |-> n, has |-> TRUE, null |-> TRUE, entries |-> <<>>]
ResNone(n) ==
  [kind |-> "none", by |-> n, has |-> FALSE, null |-> FALSE, entries |-> <<>>]
ResRaise(n) ==
  [kind |-> "raise", by |-> n, has |-> FALSE, null |-> FALSE, entries |-> <<>>]
NoResult ==
  [kind |-> "unset", by |-> 0, has |-> FALSE, null |-> FALSE, entries |-> <<>>]

\* what yt-dlp can hand back for a target: a search ("ytsearch:...") gives a
\* result set, possibly empty; anything can give a plain dict, nothing or
\* an error
Results(n, search_query) ==
  {ResDict(n), ResNone(n), ResRaise(n)}
    \cup (IF search_query # ""
          THEN {ResEntries(n, <<>>), ResEntries(n, <<1, 2>>)} ELSE {})

\* info as the routes see it: the dict itself (idx 0), entry idx of its
\* 'entries' list, or None
InfoDict(n, i) == [kind |-> "dict", by |-> n, idx |-> i]
InfoNone == [kind |-> "none", by |-> 0, idx |-> 0]

\* JSON bodies
ErrBody(m) == [tag |-> "error", msg |-> m, by |-> 0, idx |-> 0]
Data(t, info) == [tag |-> t, msg |-> "", by |-> info.by, idx |-> info.idx]
NullBody == [tag |-> "null", msg |-> "", by |-> 0, idx |-> 0]
HomeBody == [tag |-> "alive", msg |-> "", by |-> 0, idx |-> 0]
HtmlBody == [tag |-> "html", msg |-> "Internal Server Error", by |-> 0, idx |-> 0]

Response(st, body) == [status |-> st, json |-> TRUE, body |-> body]
\* Flask's answer to an exception no handler catches
Unhandled == [status |-> 500, json |-> FALSE, body |-> HtmlBody]
NoResponse == [status |-> 0, json |-> FALSE, body |-> NullBody]

\* Python truthiness of a cached value
Truthy(body) == body.tag # "null"

\* ------------------------------------------------------------------ state
VARIABLES
  req,          \* req[s]: the request numbered s and the position of its handler
  cache,        \* the flask_caching store: key -> [data, status, timeout]
  queue,        \* work queue of _ytdlp_executor (request numbers, FIFO)
  fut,          \* fut[s]: the future of the task request s submitted
  max_workers,  \* YDLP_THREADPOOL_MAX_WORKERS, read from the environment
  last,         \* the request answered last, with its response
  arg,          \* argument of the result shaper under test
  ret           \* what the shaper returned for arg

vars == <<req, cache, queue, fut, max_workers, last, arg, ret>>
\* what no handler and no worker changes
env == <<max_workers, arg, ret>>

\* submits counts the tasks the handler handed to the executor
Idle == [pc |-> "idle", route |-> "", q |-> "", u |-> "", latest |-> FALSE,
         submits |-> 0]
NoFuture == [state |-> "none", search |-> "", url |-> "", result |-> NoResult]
NoLast == [id |-> 0, route |-> "", q |-> "", u |-> "", latest |-> FALSE,
           submits |-> 0, resp |-> NoResponse, hit |-> FALSE]

\* ------------------------------------------------------------------ cache
EmptyCache == [k \in {} |-> 0]
Has(c, k) == k \in DOMAIN c
CacheSet(c, k, data, status, timeout) ==
  [x \in DOMAIN c \cup {k} |->
     IF x = k THEN [data |-> data, status |-> status, timeout |-> timeout]
     ELSE c[x]]
CacheDelete_Noop(c, k) == c

CacheDelete(c, k) == [x \in DOMAIN c \ {k} |-> c[x]]

\* the service after start-up: nothing cached, nothing submitted.  A pool of
\* NReq workers or more (the default is 4) never makes a task wait, so the
\* pool sizes 1..NReq cover every setting of YDLP_WORKERS.
Started ==
  /\ req = [s \in Slot |-> Idle]
  /\ cache = EmptyCache
  /\ queue = <<>>
  /\ fut = [s \in Slot |-> NoFuture]
  /\ max_workers \in 1..NReq
  /\ last = NoLast

Unset == [state |-> "unset"]

Init ==
  /\ Started
  /\ arg = <<>>
  /\ ret = Unset

\* ------------------------------------------------------------------ extract_info
\* the search_query and url arguments each route passes to extract_info
SearchArg(route, q) == IF route \in {ALL, META, DOWNLOAD, AUDIO, VIDEO} THEN q ELSE ""
UrlArg(route, q, u) == IF route \in {CHANNEL, PLAYLIST} THEN Or(q, u) ELSE u
TargetOf_UrlFirst(search_query, url) ==
  IF url # "" THEN url ELSE "ytsearch:" \o search_query

TargetOf(search_query, url) ==
  IF search_query # "" THEN "ytsearch:" \o search_query ELSE url

Ok(info) == [info |-> info, ok |-> TRUE, err |-> NullBody, code |-> 0]
Err(m, code) == [info |-> InfoNone, ok |-> FALSE, err |-> ErrBody(m), code |-> code]
TimedOut_As500 == Err("yt-dlp timed out", 500)

TimedOut == Err("yt-dlp timed out", 504)

\* the part of extract_info after future.result() returned or raised
extract_info(search_query, result) ==
  IF result.kind = "raise" THEN Err("upstream", 500)
  ELSE IF search_query # "" /\ result.kind = "dict" /\ result.has
       THEN LET entries == IF result.null THEN <<>> ELSE result.entries
            IN IF entries = <<>>
               THEN Err("No search results", 404)
               ELSE Ok(InfoDict(result.by, Head(entries)))
       ELSE IF result.kind = "none" THEN Ok(InfoNone)
            ELSE Ok(InfoDict(result.by, 0))

\* ------------------------------------------------------------------ route tails
\* the handler from the return of extract_info to its return statement:
\* resp is the response, store says whether cache.set runs, data/status are
\* what it stores
RouteTail(route, out) ==
  IF ~out.ok
  THEN [resp |-> Response(out.code, out.err), store |-> route = DOWNLOAD,
        data |-> out.err, status |-> out.code]
  ELSE IF route \in Social
  THEN LET body == IF out.info.kind = "none" THEN NullBody
                   ELSE Data(route, out.info)
       IN [resp |-> Response(200, body), store |-> TRUE,
           data |-> body, status |-> 200]
  ELSE IF out.info.kind = "none"
  THEN \* info.get(...) on None raises AttributeError
       [resp |-> IF route \in Guarded THEN Response(500, ErrBody("exception"))
                 ELSE Unhandled,
        store |-> FALSE, data |-> NullBody, status |-> 500]
  ELSE [resp |-> Response(200, Data(route, out.info)),
        store |-> route \notin Uncached,
        data |-> Data(route, out.info), status |-> 200]

TtlOf_AlwaysStream(route) == STREAM_TIMEOUT

TtlOf(route) == IF route = DOWNLOAD THEN STREAM_TIMEOUT ELSE 0

\* ------------------------------------------------------------------ handlers
Return_RetryOnError(s, r, resp, hit) ==
  IF r.pc = "wait" /\ resp.status \in {500, 504}
  THEN /\ req' = [req EXCEPT ![s] = [r EXCEPT !.pc = "get"]]
       /\ last' = last
  ELSE /\ req' = [req EXCEPT ![s] = [Idle EXCEPT !.pc = "done", !.route = r.route]]
       /\ last' = [id |-> s, route |-> r.route, q |-> r.q, u |-> r.u,
                   latest |-> r.latest, submits |-> r.submits, resp |-> resp,
                   hit |-> hit]

\* the handler of request s returns resp (hit: it returns the cached value)
Return(s, r, resp, hit) ==
  /\ req' = [req EXCEPT ![s] = [Idle EXCEPT !.pc = "done", !.route = r.route]]
  /\ last' = [id |-> s, route |-> r.route, q |-> r.q, u |-> r.u,
              latest |-> r.latest, submits |-> r.submits, resp |-> resp,
              hit |-> hit]

Submit_Coalesced(s, search_query, url) ==
  IF \E t \in Slot : /\ fut[t].state \in {"pending", "running"}
                     /\ fut[t].search = search_query /\ fut[t].url = url
  THEN UNCHANGED <<fut, queue>>
  ELSE /\ fut' = [fut EXCEPT ![s] = [state |-> "pending", search |-> search_query,
                                     url |-> url, result |-> NoResult]]
       /\ queue' = Append(queue, s)

\* _ytdlp_executor.submit(_run_extract_info, ydl_opts, target)
Submit(s, search_query, url) ==
  /\ fut' = [fut EXCEPT ![s] = [state |-> "pending", search |-> search_query,
                                url |-> url, result |-> NoResult]]
  /\ queue' = Append(queue, s)

MissingParams_Unchecked(route, q, u) == FALSE

MissingParams(route, q, u) ==
  IF route \in Social THEN u = "" ELSE q = "" /\ u = ""

Hit_Never(route, key) == FALSE

\* the cached value the handler returns, if any: "if cached is not None" on
\* /api/fast-meta, "if cached" on the other routes, the lookup of
\* @cache.cached on /download
Hit(route, key) ==
  /\ route \notin Uncached
  /\ Has(cache, key)
  /\ route \in Explicit \ {FAST_META} => Truthy(cache[key].data)

\* cache.get(key) by the handler of request s, whose record is r; then on a
\* miss the parameter check and the submit (or the search, or the constant
\* answer of "/")
LookupAs(s, r) ==
  LET key == KeyOf(r.route, r.q, r.u, r.latest)
  IN
  IF Hit(r.route, key)
  THEN /\ Return(s, r, Response(cache[key].status, cache[key].data), TRUE)
       /\ UNCHANGED <<cache, queue, fut>>
  ELSE IF r.route = HOME
  THEN /\ cache' = CacheSet(cache, key, HomeBody, 200, 0)
       /\ Return(s, r, Response(200, HomeBody), FALSE)
       /\ UNCHANGED <<queue, fut>>
  ELSE IF MissingParams(r.route, r.q, r.u)
  THEN LET e == ErrBody("Provide parameters") IN
       /\ Return(s, r, Response(400, e), FALSE)
       /\ cache' = IF r.route = DOWNLOAD
                   THEN CacheSet(cache, key, e, 400, STREAM_TIMEOUT)
                   ELSE cache
       /\ UNCHANGED <<queue, fut>>
  ELSE IF r.route = FAST_META /\ r.q # ""
  THEN /\ req' = [req EXCEPT ![s] = [r EXCEPT !.pc = "search"]]
       /\ UNCHANGED <<cache, queue, fut, last>>
  ELSE /\ Submit(s, SearchArg(r.route, r.q), UrlArg(r.route, r.q, r.u))
       /\ req' = [req EXCEPT ![s] = [r EXCEPT !.pc = "wait", !.submits = @ + 1]]
       /\ UNCHANGED <<cache, last>>

\* a request arrives and its handler runs to its first blocking point.  With
\* 'latest' on a route that has "if 'latest' in request.args:
\* cache.delete(key)" the step ends after the delete (other handlers can run
\* between it and the cache.get).  All requests of a behaviour go to one
\* route (the keys of different routes never coincide).
Request(s, route, q, u, latest) ==
  LET r == [pc |-> "get", route |-> route, q |-> q, u |-> u, latest |-> latest,
            submits |-> 0]
  IN
  /\ req[s].pc = "idle"
  /\ \A t \in Slot : t < s => req[t].pc # "idle"
  /\ q \in SearchValsOf(route) /\ u \in UrlValsOf(route)
  /\ route \in Social => q = ""
  /\ route = HOME => q = "" /\ u = ""
  /\ \A t \in Slot : req[t].pc # "idle" => req[t].route = route
  /\ UNCHANGED env
  /\ IF route \in Explicit /\ latest
     THEN /\ cache' = CacheDelete(cache, KeyOf(route, q, u, latest))
          /\ req' = [req EXCEPT ![s] = r]
          /\ UNCHANGED <<queue, fut, last>>
     ELSE LookupAs(s, r)

\* the cache.get(key) of a handler that ran cache.delete(key)
Lookup(s) ==
  /\ req[s].pc = "get"
  /\ UNCHANGED env
  /\ LookupAs(s, req[s])

\* /api/fast-meta with a search: YoutubeSearch(q, max_results=1).to_dict()
\* returns a result, returns nothing, or raises (as does shaping a result
\* that lacks 'url_suffix' or has a malformed duration)
SearchOutcomes == {"some", "empty", "raise"}
YoutubeSearchReturns(s, o) ==
  LET r == req[s]
      key == KeyOf(r.route, r.q, r.u, r.latest)
      body == Data(FAST_META, InfoDict(s, 1))
  IN
  /\ r.pc = "search"
  /\ Return(s, r, CASE o = "some" -> Response(200, body)
                 [] o = "empty" -> Response(404, ErrBody("No results"))
                 [] o = "raise" -> Response(500, ErrBody("exception")),
            FALSE)
  /\ cache' = IF o = "some" THEN CacheSet(cache, key, body, 200, 0) ELSE cache
  /\ UNCHANGED <<queue, fut, env>>

\* ------------------------------------------------------------------ thread pool
Running == {s \in Slot : fut[s].state = "running"}

WorkerFree_Always == TRUE

\* the executor has max_workers threads and a thread runs one work item at
\* a time: an item is popped only by a thread that runs none
WorkerFree == Cardinality(Running) < max_workers

RunItem_EvenCancelled(f) == [f EXCEPT !.state = "running"]

\* work_item.run(): set_running_or_notify_cancel() starts a pending future
\* and gives up on a cancelled one, which stays cancelled
RunItem(f) == IF f.state = "pending" THEN [f EXCEPT !.state = "running"] ELSE f

\* a free worker thread pops the next work item; a cancelled item is dropped
WorkerTakes ==
  /\ queue # <<>>
  /\ WorkerFree
  /\ queue' = Tail(queue)
  /\ fut' = [fut EXCEPT ![Head(queue)] = RunItem(@)]
  /\ UNCHANGED <<req, cache, env, last>>

\* _run_extract_info returns or raises in its worker thread, which sets the
\* future (also when the handler that waited for it has timed out)
TaskReturns(s, res) ==
  /\ fut[s].state = "running"
  /\ fut' = [fut EXCEPT ![s].state = "finished", ![s].result = res]
  /\ UNCHANGED <<req, cache, queue, env, last>>

Waits_Always(s) == TRUE

\* the handler of request s is blocked in future.result(timeout); the future
\* is a local of extract_info, no other code reads it
Waits(s) == req[s].pc = "wait"

\* future.result(timeout) returns; the handler runs to its return statement
\* and drops its reference to the future
FutureResult(s) ==
  LET r == req[s]
      key == KeyOf(r.route, r.q, r.u, r.latest)
      t == RouteTail(r.route, extract_info(fut[s].search, fut[s].result))
  IN
  /\ Waits(s)
  /\ fut[s].state = "finished"
  /\ Return(s, r, t.resp, FALSE)
  /\ cache' = IF t.store THEN CacheSet(cache, key, t.data, t.status, TtlOf(r.route))
              ELSE cache
  /\ fut' = [fut EXCEPT ![s] = NoFuture]
  /\ UNCHANGED <<queue, env>>

Cancel_Kills(f) == [NoFuture EXCEPT !.state = "cancelled"]

\* future.cancel(): a pending future becomes cancelled, a running or
\* finished one is left as it is
Cancel(f) ==
  IF f.state = "pending" THEN [NoFuture EXCEPT !.state = "cancelled"] ELSE f

\* future.result(timeout) raises TimeoutError: future.cancel(), then 504
FutureTimeout(s) ==
  LET r == req[s]
      t == RouteTail(r.route, TimedOut)
  IN
  /\ Waits(s)
  /\ HasTimeout(r.route)
  /\ fut[s].state \in {"pending", "running"}
  /\ fut' = [fut EXCEPT ![s] = Cancel(@)]
  /\ Return(s, r, t.resp, FALSE)
  /\ UNCHANGED <<cache, queue, env>>

\* STREAM_TIMEOUT seconds after cache.set an entry of /download is expired:
\* cache.get no longer returns it
Expire(k) ==
  /\ Has(cache, k)
  /\ cache[k].timeout > 0
  /\ cache' = CacheDelete(cache, k)
  /\ UNCHANGED <<req, queue, fut, env, last>>

Next ==
  \/ \E s \in Slot, route \in Routes, q \in AllParamVals, u \in AllParamVals, latest \in BOOLEAN :
       Request(s, route, q, u, latest)
  \/ \E s \in Slot : Lookup(s)
  \/ \E s \in Slot, o \in SearchOutcomes : YoutubeSearchReturns(s, o)
  \/ WorkerTakes
  \/ \E s \in Slot : \E res \in Results(s, fut[s].search) : TaskReturns(s, res)
  \/ \E s \in Slot : FutureResult(s)
  \/ \E s \in Slot : FutureTimeout(s)
  \/ \E k \in DOMAIN cache : Expire(k)

Spec == Init /\ [][Next]_vars

\* future.result(timeout) returns once the future is set, and raises once
\* the timeout has passed: a handler blocked in it goes on as soon as one of
\* the two can happen.  Nothing makes yt-dlp finish a task.
Fairness == \A s \in Slot : WF_vars(FutureResult(s) \/ FutureTimeout(s))

SpecLive == Spec /\ Fairness

\* ================================================================== result shaper
\* Python's None, the value of dict.get for an absent key
None == "<None>"

\* ------------------------------------------------------------------ build_formats_list
\* a raw format descriptor f: what f.get('url'), f.get('vcodec') and
\* f.get('acodec') give
UrlVals == {None, "", "https://cdn/v"}
VcodecVals == {None, "none", "avc1"}
AcodecVals == {None, "none", "mp4a"}
Descriptors == [url : UrlVals, vcodec : VcodecVals, acodec : AcodecVals]

\* "if not url_f"
Falsy(v) == v = None \/ v = ""

KindOf(f) ==
  LET has_video == f.vcodec # "none"
      has_audio == f.acodec # "none"
  IN IF has_video /\ has_audio THEN "progressive"
     ELSE IF has_video THEN "video-only"
     ELSE IF has_audio THEN "audio-only"
     ELSE None

RECURSIVE build_formats_list(_)
build_formats_list(formats) ==
  IF formats = <<>> THEN <<>>
  ELSE LET f == Head(formats)
           rest == build_formats_list(Tail(formats))
       IN IF Falsy(f.url) THEN rest
          ELSE IF KindOf(f) = None THEN rest
          ELSE <<[kind |-> KindOf(f), url |-> f.url, vcodec |-> f.vcodec,
                  acodec |-> f.acodec]>> \o rest

FormatLists == UNION {[1..n -> Descriptors] : n \in 0..MaxFormats}

InitFormats ==
  /\ Started
  /\ arg \in FormatLists
  /\ ret = Unset

\* a route calls build_formats_list(info) with info['formats'] = arg
BuildFormats ==
  /\ ret = Unset
  /\ ret' = [state |-> "returned", value |-> build_formats_list(arg)]
  /\ UNCHANGED <<req, cache, queue, fut, max_workers, last, arg>>

NextFormats == BuildFormats

SpecFormats == InitFormats /\ [][NextFormats]_vars

\* ------------------------------------------------------------------ to_iso_duration
\* a duration string is the sequence of its characters
Digits == <<"0", "1", "2", "3", "4", "5", "6", "7", "8", "9">>
IsDigitChar(c) == \E i \in 1..10 : Digits[i] = c
DigitVal(c) == (CHOOSE i \in 1..10 : Digits[i] = c) - 1

\* str.split(':')
RECURSIVE Split(_)
Split(str) ==
  IF \A i \in 1..Len(str) : str[i] # ":" THEN <<str>>
  ELSE LET i == CHOOSE j \in 1..Len(str) :
                  str[j] = ":" /\ \A k \in 1..(j - 1) : str[k] # ":"
       IN <<SubSeq(str, 1, i - 1)>> \o Split(SubSeq(str, i + 1, Len(str)))

\* str.isdigit(), and the strings of these characters int() accepts
IsDigit(field) ==
  field # <<>> /\ \A i \in 1..Len(field) : IsDigitChar(field[i])

\* int(field) of a string of digits
RECURSIVE IntOf(_)
IntOf(field) ==
  IF field = <<>> THEN 0
  ELSE 10 * IntOf(SubSeq(field, 1, Len(field) - 1)) + DigitVal(field[Len(field)])

\* f"{n}" of a non-negative int
RECURSIVE StrOf(_)
StrOf(n) ==
  IF n < 10 THEN <<Digits[n + 1]>>
  ELSE StrOf(n \div 10) \o <<Digits[(n % 10) + 1]>>

Returned(v) == [state |-> "returned", value |-> v]
\* int() of a field that is no number raises ValueError
Raised == [state |-> "raised", value |-> <<"ValueError">>]

to_iso_duration(duration_str) ==
  LET parts == IF duration_str # <<>> THEN Split(duration_str) ELSE <<>>
      iso == <<"P", "T">>
  IN IF Len(parts) = 3
     THEN IF \A i \in 1..3 : IsDigit(parts[i])
          THEN Returned(iso
                 \o (IF IntOf(parts[1]) # 0 THEN StrOf(IntOf(parts[1])) \o <<"H">> ELSE <<>>)
                 \o StrOf(IntOf(parts[2])) \o <<"M">>
                 \o StrOf(IntOf(parts[3])) \o <<"S">>)
          ELSE Raised
     ELSE IF Len(parts) = 2
     THEN IF \A i \in 1..2 : IsDigit(parts[i])
          THEN Returned(iso \o StrOf(IntOf(parts[1])) \o <<"M">>
                            \o StrOf(IntOf(parts[2])) \o <<"S">>)
          ELSE Raised
     ELSE IF Len(parts) = 1 /\ IsDigit(parts[1])
     THEN Returned(iso \o StrOf(IntOf(parts[1])) \o <<"S">>)
     ELSE Returned(iso \o <<"0", "S">>)

\* the characters of the duration strings tried, and the examples of the
\* documentation
DurationChars == {"0", "3", ":", "x"}
DurationExamples ==
  {<<"1", ":", "0", "2", ":", "0", "3">>, <<"5", ":", "0", "9">>, <<"4", "5">>,
   <<"1", ":", "2", ":", "3", ":", "4">>}
DurationStrings ==
  UNION {[1..n -> DurationChars] : n \in 0..MaxLen} \cup DurationExamples

InitDuration ==
  /\ Started
  /\ arg \in DurationStrings
  /\ ret = Unset

\* a caller evaluates to_iso_duration(arg)
ToIsoDuration ==
  /\ ret = Unset
  /\ ret' = to_iso_duration(arg)
  /\ UNCHANGED <<req, cache, queue, fut, max_workers, last, arg>>

NextDuration == ToIsoDuration

SpecDuration == InitDuration /\ [][NextDuration]_vars

\* ------------------------------------------------------------------ format_size
\* a byte count is the sequence of its decimal digits, without leading
\* zeros; <<>> is an absent (or None) field
Absent == <<>>
Zero == <<"0">>

\* fmt.get('filesize') or fmt.get('filesize_approx') or 0
get_size_bytes(fmt) ==
  IF fmt.filesize \notin {Absent, Zero} THEN fmt.filesize
  ELSE IF fmt.filesize_approx \notin {Absent, Zero} THEN fmt.filesize_approx
  ELSE Zero

\* f"{bytes_val / 10^k:.2f}" for a count of more than k digits: the digits
\* up to the second decimal, rounded by the k - 2 digits that follow.  When
\* these are exactly a half, the binary float of the quotient decides:
\* half_up is its decision
Scaled(digits, k, half_up) ==
  LET n == Len(digits)
      kept == IntOf(SubSeq(digits, 1, n - k + 2))
      first == DigitVal(digits[n - k + 3])
      rest == SubSeq(digits, n - k + 4, n)
      more == \E i \in 1..Len(rest) : rest[i] # "0"
      up == first > 5 \/ (first = 5 /\ (more \/ half_up))
      h == IF up THEN kept + 1 ELSE kept
  IN StrOf(h \div 100) \o <<".", Digits[((h % 100) \div 10) + 1], Digits[(h % 10) + 1]>>

format_size_LateKB(bytes_val, half_up) ==
  IF Len(bytes_val) > 9 THEN Scaled(bytes_val, 9, half_up) \o <<" ", "G", "B">>
  ELSE IF Len(bytes_val) > 6 THEN Scaled(bytes_val, 6, half_up) \o <<" ", "M", "B">>
  ELSE IF Len(bytes_val) > 4 THEN Scaled(bytes_val, 3, half_up) \o <<" ", "K", "B">>
  ELSE bytes_val \o <<" ", "B">>

\* a count without leading zeros is >= 10^k exactly when it has more than k
\* digits
format_size(bytes_val, half_up) ==
  IF Len(bytes_val) > 9 THEN Scaled(bytes_val, 9, half_up) \o <<" ", "G", "B">>
  ELSE IF Len(bytes_val) > 6 THEN Scaled(bytes_val, 6, half_up) \o <<" ", "M", "B">>
  ELSE IF Len(bytes_val) > 3 THEN Scaled(bytes_val, 3, half_up) \o <<" ", "K", "B">>
  ELSE bytes_val \o <<" ", "B">>

\* the byte counts tried: every count of these digits, the powers of ten
\* where the unit changes, and the examples of the documentation
SizeDigits == {"0", "5", "9"}
SizeExamples ==
  {<<"5", "0", "0">>, <<"1", "5", "0", "0">>,
   <<"2", "5", "0", "0", "0", "0", "0">>,
   <<"3", "0", "0", "0", "0", "0", "0", "0", "0", "0">>,
   <<"1", "0", "0", "0">>, <<"1", "0", "0", "0", "0", "0", "0">>,
   <<"1", "0", "0", "0", "0", "0", "0", "0", "0", "0">>}
Sizes ==
  {d \in UNION {[1..n -> SizeDigits] : n \in 1..MaxDigits} :
     d[1] # "0" \/ Len(d) = 1}
    \cup SizeExamples
SizedFormats ==
  [filesize : Sizes \cup {Absent}, filesize_approx : {Absent}]
    \cup [filesize : {Absent, Zero},
          filesize_approx : {Zero, <<"5", "0", "0">>, <<"1", "5", "0", "0">>}]

InitSize ==
  /\ Started
  /\ arg \in SizedFormats
  /\ ret = Unset

\* build_formats_list computes size = get_size_bytes(f) and format_size(size)
FormatSize ==
  /\ ret = Unset
  /\ \E half_up \in BOOLEAN :
       ret' = [state |-> "returned", size |-> get_size_bytes(arg),
               text |-> format_size(get_size_bytes(arg), half_up)]
  /\ UNCHANGED <<req, cache, queue, fut, max_workers, last, arg>>

NextSize == FormatSize

SpecSize == InitSize /\ [][NextSize]_vars

\* ------------------------------------------------------------------ extract_info alone
\* the arguments of a call (a route passes "u or None, q or None": "" is
\* None) and what the worker hands back for the target
QueryVals == {"", "a", "b"}
ExtractResults ==
  {ResDict(1), ResNone(1), ResRaise(1), ResEntriesNull(1)}
    \cup {ResEntries(1, es) : es \in {<<>>, <<1>>, <<1, 2>>, <<2, 1>>}}
ExtractCalls ==
  {c \in [search_query : QueryVals, url : QueryVals, result : ExtractResults] :
     c.search_query # "" \/ c.url # ""}

InitExtract ==
  /\ Started
  /\ arg \in ExtractCalls
  /\ ret = Unset

\* extract_info(url, search_query) runs from the choice of the target to
\* its return, its task handing back arg.result in time
ExtractInfo ==
  /\ ret = Unset
  /\ ret' = [state |-> "returned",
             target |-> TargetOf(arg.search_query, arg.url),
             out |-> extract_info(arg.search_query, arg.result)]
  /\ UNCHANGED <<req, cache, queue, fut, max_workers, last, arg>>

NextExtract == ExtractInfo

SpecExtract == InitExtract /\ [][NextExtract]_vars

\* ================================================================== properties
\* request s arrives in this step / its handler returns in this step
Arrives(s) == req[s].pc = "idle" /\ req'[s].pc # "idle"
Returns(s) == req[s].pc # "done" /\ req'[s].pc = "done"
\* no other request is being handled
Alone(s) == \A t \in Slot \ {s} : req[t].pc \in {"idle", "done"}
\* the request that acts in a step of request s (route, q, u, latest)
Arrived(s) == IF req'[s].pc = "done" THEN last' ELSE req'[s]
Acting(s) == IF req[s].pc = "idle" THEN Arrived(s) ELSE req[s]
Key(r) == KeyOf(r.route, r.q, r.u, r.latest)
\* tasks request s has submitted once this step is taken
SubmitsAfter(s) == IF req'[s].pc = "done" THEN last'.submits ELSE req'[s].submits
SameRequest(a, b) ==
  a.route = b.route /\ a.q = b.q /\ a.u = b.u /\ a.latest = b.latest

\* requests to different routes never share a cache key
KeysOfRoutesDisjoint ==
  \A r1, r2 \in Routes \ Uncached :
    \A q1, u1, q2, u2 \in AllParamVals, l1, l2 \in BOOLEAN :
      r1 # r2 => KeyOf(r1, q1, u1, l1) # KeyOf(r2, q2, u2, l2)

\* the parameters the interface table of the service requires, per route
RequiredParams(route) ==
  IF route = HOME THEN {}
  ELSE IF route \in Social THEN {"url"}
  ELSE IF route \in {CHANNEL, PLAYLIST} THEN {"id", "url"}
  ELSE {"search", "url"}
ParamValue(r, p) == IF p = "url" THEN r.u ELSE r.q
AllMissing(r) ==
  /\ RequiredParams(r.route) # {}
  /\ \A p \in RequiredParams(r.route) : ParamValue(r, p) = ""
\* the routes that answer a valid request by a yt-dlp extraction
UsesGateway(r) == r.route # HOME /\ ~(r.route = FAST_META /\ r.q # "")

\* C1 as stated: on every route, a request without 'latest' that arrives
\* right after an identical request was answered successfully is answered
\* with the same response and hands no task to the executor.
C1_IdempotentOnEveryRoute ==
  [][\A s \in Slot :
       (/\ Arrives(s) /\ Alone(s)
        /\ last.resp.status = 200 /\ ~last.latest
        /\ SameRequest(Arrived(s), last))
       => (Returns(s) /\ last'.resp = last.resp /\ SubmitsAfter(s) = 0)]_vars

\* C1 amended: the same on the routes that cache (all but /api/all,
\* /api/audio, /api/video), when the first response body is not null (or
\* empty) and, on /download, its entry has not expired; the three routes
\* without a cache submit a task on every valid request.
C1_IdempotentOnCachedRoutes ==
  [][\A s \in Slot :
       /\ (/\ Arrives(s) /\ Alone(s)
           /\ last.resp.status = 200 /\ ~last.latest
           /\ SameRequest(Arrived(s), last)
           /\ last.route \notin Uncached
           /\ Truthy(last.resp.body)
           /\ last.route = DOWNLOAD => Has(cache, Key(last)))
          => (Returns(s) /\ last'.hit /\ last'.resp = last.resp /\ SubmitsAfter(s) = 0)
       /\ (/\ Arrives(s)
           /\ Arrived(s).route \in Uncached
           /\ ~AllMissing(Arrived(s)))
          => SubmitsAfter(s) = 1]_vars

\* a second request was served from the value the first one computed
C1_Witness ==
  /\ last.id = 2 /\ last.hit /\ ~last.latest
  /\ last.route = META
  /\ last.resp.status = 200 /\ last.resp.body.by = 1
  /\ last.submits = 0

\* C2: every answered request that carried 'latest' and valid parameters,
\* on a route that extracts, has handed a task to the executor.
C2_BypassAlwaysExtracts ==
  (last.id # 0 /\ last.latest /\ ~AllMissing(last) /\ UsesGateway(last))
    => last.submits = 1

\* C3: when the wait of extract_info on its future ends while the task is
\* still queued or running, the route has a timeout and the response is
\* HTTP 504 with {'error': 'yt-dlp timed out'}.
C3_TimeoutGives504 ==
  [][\A s \in Slot :
       (/\ req[s].pc = "wait"
        /\ fut[s].state \in {"pending", "running"}
        /\ Returns(s))
       => (/\ HasTimeout(req[s].route)
           /\ last'.id = s
           /\ last'.resp = Response(504, ErrBody("yt-dlp timed out")))]_vars

\* one call timed out on a queued task, another on a running one
C3_Witness ==
  /\ last.resp.status = 504
  /\ \E s, t \in Slot :
       /\ req[s].pc = "done" /\ fut[s].state = "running"
       /\ req[t].pc = "done" /\ fut[t].state = "cancelled"

\* C4: a request whose required parameters are all missing never hands a
\* task to the executor and is answered with HTTP 400 and a JSON error.
C4_MissingParamsGive400 ==
  /\ \A s \in Slot :
       (req[s].pc \notin {"idle", "done"} /\ AllMissing(req[s]))
         => (req[s].submits = 0 /\ fut[s].state = "none" /\ req[s].pc = "get")
  /\ (last.id # 0 /\ AllMissing(last))
       => (/\ last.resp.status = 400
           /\ last.resp.json /\ last.resp.body.tag = "error"
           /\ last.submits = 0 /\ fut[last.id].state = "none")

\* a request without parameters but with 'latest' was answered 400 while
\* the cache held an entry
C4_Witness ==
  /\ last.id = 2 /\ AllMissing(last) /\ last.latest
  /\ last.resp.status = 400
  /\ DOMAIN cache # {}

\* C5: every cache entry holds a successful result (status 200, no error
\* body).
C5_OnlySuccessCached ==
  \A k \in DOMAIN cache : cache[k].status = 200 /\ cache[k].data.tag # "error"

\* C6 as stated: a request with 'latest' leaves no entry under its key when
\* it arrives, and when it returns the cache holds under the key a value
\* computed by this request.
C6_BypassLeavesFreshValue ==
  [][\A s \in Slot :
       /\ (Arrives(s) /\ Arrived(s).latest /\ Arrived(s).route \in Explicit)
          => ~Has(cache', Key(Arrived(s)))
       /\ (/\ Returns(s) /\ last'.latest
           /\ last'.route \in Explicit /\ UsesGateway(last')
           /\ ~AllMissing(last'))
          => (Has(cache', Key(last')) /\ cache'[Key(last')].data.by = s)]_vars

\* C6 amended: on the routes that handle 'latest' the request deletes the
\* entry of its key when it arrives; when it returns with status 200 the
\* cache holds under the key exactly the body it returns, which it computed
\* itself unless another request stored the key between its delete and its
\* lookup; when it returns an error it stored nothing.
C6_BypassDeletesThenStoresOnSuccess ==
  [][\A s \in Slot :
       /\ (Arrives(s) /\ Arrived(s).latest /\ Arrived(s).route \in Explicit)
          => ~Has(cache', Key(Arrived(s)))
       /\ (/\ Returns(s) /\ last'.latest /\ last'.route \in Explicit
           /\ last'.resp.status = 200)
          => (/\ Has(cache', Key(last'))
              /\ cache'[Key(last')].data = last'.resp.body
              /\ (~last'.hit /\ UsesGateway(last') /\ Truthy(last'.resp.body))
                   => cache'[Key(last')].data.by = s)
       /\ (/\ Returns(s) /\ last'.latest /\ last'.route \in Explicit
           /\ last'.resp.status # 200)
          => cache' = cache]_vars

\* the second request carried 'latest', recomputed and stored its own value
C6_Witness ==
  /\ last.id = 2 /\ last.latest /\ ~last.hit
  /\ last.route = CHANNEL
  /\ last.resp.status = 200
  /\ last.submits = 1
  /\ Has(cache, Key(last)) /\ cache[Key(last)].data.by = 2

C8_ErrorsAreJson ==
  (last.id # 0 /\ last.resp.status # 200)
    => (/\ last.resp.json
        /\ last.resp.body.tag = "error"
        /\ last.resp.status \in {400, 404, 500, 504})

\* C9: build_formats_list keeps exactly the descriptors that have a stream
\* URL and a valid video or audio codec (a codec field that is present and
\* not 'none'), in order, and classifies each by its valid codecs.
ValidCodec(c) == c # None /\ c # "none"
ClaimedKind(f) ==
  IF ValidCodec(f.vcodec) /\ ValidCodec(f.acodec) THEN "progressive"
  ELSE IF ValidCodec(f.vcodec) THEN "video-only"
  ELSE IF ValidCodec(f.acodec) THEN "audio-only"
  ELSE "dropped"
Kept(f) == ~Falsy(f.url) /\ ClaimedKind(f) # "dropped"
C9_FormatClassification ==
  ret.state = "returned" =>
    LET kept == SelectSeq(arg, Kept) IN
    /\ Len(ret.value) = Len(kept)
    /\ \A i \in 1..Len(kept) :
         /\ ret.value[i].url = kept[i].url
         /\ ret.value[i].kind = ClaimedKind(kept[i])

\* C10: to_iso_duration gives the ISO duration of every string of one to
\* three numeric fields (a zero hour is left out) and PT0S, without raising,
\* for every other string.
NumericFields(str) ==
  /\ str # <<>>
  /\ Len(Split(str)) \in 1..3
  /\ \A i \in 1..Len(Split(str)) : IsDigit(Split(str)[i])
ClaimedIso(str) ==
  LET p == Split(str)
      n == Len(p)
      h == IF n = 3 THEN IntOf(p[1]) ELSE 0
  IN <<"P", "T">>
       \o (IF h # 0 THEN StrOf(h) \o <<"H">> ELSE <<>>)
       \o (IF n >= 2 THEN StrOf(IntOf(p[n - 1])) \o <<"M">> ELSE <<>>)
       \o StrOf(IntOf(p[n])) \o <<"S">>
C10_DurationNormalization ==
  ret # Unset =>
    IF NumericFields(arg) THEN ret = Returned(ClaimedIso(arg))
    ELSE ret = Returned(<<"P", "T", "0", "S">>)

\* C11: the extraction calls executing at the same time never outnumber the
\* pool size, and a task submitted while every worker is busy waits in the
\* queue.
C11_BoundedPool ==
  /\ Cardinality(Running) <= max_workers
  /\ \A s \in Slot : fut[s].state = "pending" => \E i \in 1..Len(queue) : queue[i] = s

\* every worker runs a task while another task waits in the queue
C11_Witness ==
  /\ Cardinality(Running) = max_workers
  /\ \E s \in Slot : fut[s].state = "pending" /\ req[s].pc = "wait"

\* the tasks whose caller timed out while they ran and that still run
Abandoned == {s \in Slot : req[s].pc = "done" /\ fut[s].state = "running"}

\* C12: a call that times out on a running task leaves the task running on
\* its worker; a running task leaves its worker only by finishing; and while
\* every worker holds a task abandoned this way, no queued task starts.
C12_BestEffortCancellation ==
  [][/\ \A s \in Slot :
          (req[s].pc = "wait" /\ fut[s].state = "running" /\ Returns(s))
            => (fut'[s].state = "running" /\ s \in Abandoned')
     /\ \A s \in Slot :
          (fut[s].state = "running" /\ fut'[s].state # "running")
            => fut'[s].state = "finished"
     /\ (Cardinality(Abandoned) = max_workers /\ Abandoned' = Abandoned)
          => \A t \in Slot : fut'[t].state = "running" => fut[t].state = "running"]_vars

\* every worker holds an abandoned task and a later request waits on a
\* queued one
C12_Witness ==
  /\ Cardinality(Abandoned) = max_workers
  /\ \E t \in Slot : req[t].pc = "wait" /\ fut[t].state = "pending"

\* the call of request s returned Timeout: the handler is gone and the
\* future it gave up is cancelled, still running, or finished unread
TimedOutCall(s) ==
  req[s].pc = "done" /\ fut[s].state \in {"cancelled", "running", "finished"}

\* C13: a request answered 504 'yt-dlp timed out' leaves a timed-out call,
\* which stays one whatever its task does later, and no cache entry and no
\* response ever carries a result of its task.
C13_TimedOutResultDiscarded ==
  [][\A s \in Slot :
       /\ (Returns(s) /\ last'.resp = Response(504, ErrBody("yt-dlp timed out")))
          => TimedOutCall(s)'
       /\ TimedOutCall(s) => TimedOutCall(s)'
       /\ TimedOutCall(s)'
          => (/\ \A k \in DOMAIN cache' : cache'[k].data.by # s
              /\ last'.resp.body.by # s)]_vars

\* the task of a timed-out call has completed with a result in the
\* background, and a later request was answered with its own result
C13_Witness ==
  \E s \in Slot :
    /\ TimedOutCall(s)
    /\ fut[s].state = "finished" /\ fut[s].result.kind = "dict"
    /\ last.id > s /\ last.resp.status = 200 /\ last.resp.body.by = last.id

\* C14: a handler that waits in extract_info on a route that passes a
\* timeout (every route but /download) eventually returns, whether or not
\* any task ever finishes; the wait of /download, made without a timeout,
\* ends only when its task has finished.
C14_TimedCallsReturn ==
  /\ \A s \in Slot :
       (req[s].pc = "wait" /\ req[s].route # DOWNLOAD) ~> (req[s].pc = "done")
  /\ [][\A s \in Slot :
          (req[s].pc = "wait" /\ req[s].route = DOWNLOAD /\ Returns(s))
            => fut[s].state = "finished"]_vars

\* every worker holds an abandoned task, and the call of a later request,
\* whose task never left the queue, has returned Timeout
C14_Witness ==
  /\ Cardinality(Abandoned) = max_workers
  /\ last.id # 0 /\ last.resp.status = 504
  /\ fut[last.id].state = "cancelled"
  /\ \E i \in 1..Len(queue) : queue[i] = last.id

\* C15: no request ever has more than one task submitted, no request has
\* two work items in the queue, and the step in which a waiting handler
\* gets the outcome of its call (success, failure, not-found or timeout)
\* is its return: it submits nothing.
C15_NoRetries ==
  /\ [](/\ \A s \in Slot : req[s].submits <= 1
        /\ last.submits <= 1
        /\ \A i, j \in 1..Len(queue) : queue[i] = queue[j] => i = j)
  /\ [][\A s \in Slot :
          (req[s].pc = "wait" /\ req'[s] # req[s])
            => (/\ Returns(s) /\ last'.id = s /\ last'.submits = 1
                /\ queue' = queue)]_vars

\* a request whose search found nothing was answered 404 after its single
\* task, and nothing is queued or running
C15_Witness ==
  /\ last.resp = Response(404, ErrBody("No search results"))
  /\ last.submits = 1
  /\ queue = <<>> /\ Running = {}

\* the handler of request s looks its key up in this step
Looks(s) ==
  /\ req[s].pc \in {"idle", "get"}
  /\ req'[s] # req[s]
  /\ ~(req[s].pc = "idle" /\ req'[s].pc = "get")

\* C16: a valid request that finds no entry under its key submits its own
\* task even while the task of another request for the same key is in
\* flight, and each of them, returning with success, stores its own body
\* under the key, over whatever is there.
C16_StampedePossible ==
  [][\A s \in Slot :
       /\ (/\ Looks(s)
           /\ ~Has(cache, Key(Acting(s)))
           /\ ~AllMissing(Acting(s)) /\ UsesGateway(Acting(s))
           /\ \E t \in Slot \ {s} :
                /\ req[t].pc = "wait" /\ Key(req[t]) = Key(Acting(s))
                /\ fut[t].state \in {"pending", "running"})
          => (/\ req'[s].pc = "wait" /\ fut'[s].state = "pending"
              /\ queue' = Append(queue, s))
       /\ (/\ req[s].pc = "wait" /\ Returns(s)
           /\ last'.resp.status = 200 /\ last'.route \notin Uncached)
          => (/\ Has(cache', Key(last'))
              /\ cache'[Key(last')].data = last'.resp.body
              /\ cache'[Key(last')].data.by \in {0, s})]_vars

\* two requests for one key both missed and submitted: one has stored its
\* value, the task of the other has finished and its value will replace it
C16_Witness ==
  \E s \in Slot :
    /\ req[s].pc = "wait" /\ ~req[s].latest
    /\ fut[s].state = "finished" /\ fut[s].result = ResDict(s)
    /\ last.id \notin {0, s} /\ ~last.latest /\ ~last.hit /\ last.submits = 1
    /\ last.route = META
    /\ Key(last) = Key(req[s])
    /\ Has(cache, Key(last)) /\ cache[Key(last)].data.by = last.id

\* C17: called with a search query, extract_info targets
\* 'ytsearch:<query>' whether or not a url is given too; a result with an
\* 'entries' list gives exactly its first entry, and an empty or null list
\* gives (None, {'error': 'No search results'}, 404).
C17_SearchMode ==
  (ret.state = "returned" /\ arg.search_query # "") =>
    /\ ret.target = "ytsearch:" \o arg.search_query
    /\ (arg.result.kind = "dict" /\ arg.result.has) =>
         IF arg.result.null \/ Len(arg.result.entries) = 0
         THEN /\ ~ret.out.ok /\ ret.out.info = InfoNone
              /\ ret.out.err = ErrBody("No search results") /\ ret.out.code = 404
         ELSE /\ ret.out.ok
              /\ ret.out.info = InfoDict(arg.result.by, arg.result.entries[1])

\* a call with both a url and a search query returned the first of two
\* search entries
C17_Witness ==
  /\ ret.state = "returned"
  /\ arg.search_query = "a" /\ arg.url = "b"
  /\ arg.result = ResEntries(1, <<2, 1>>)
  /\ ret.target = "ytsearch:a"
  /\ ret.out.ok /\ ret.out.info.idx = 2

\* the parameter values of a request after normalization: stripped, and on
\* /api/channel and /api/playlist the one value 'id or url' that is both
\* the key and the target
Normalized(r) ==
  IF r.route \in {CHANNEL, PLAYLIST} THEN <<Or(r.q, r.u)>>
  ELSE IF r.route \in Social THEN <<r.u>>
  ELSE <<r.q, r.u>>

\* C18: a request answered from the cache with the value the request
\* answered before it computed has the same route and the same normalized
\* parameter values as that request.
C18_NoKeyCollision ==
  [][\A s \in Slot :
       (/\ Returns(s) /\ last'.hit
        /\ last.id \notin {0, s}
        /\ last'.resp.body.by = last.id)
       => (last'.route = last.route /\ Normalized(last') = Normalized(last))]_vars

\* C19: a call that times out while its task is still queued cancels it;
\* a cancelled task never runs, and the worker that pops its work item
\* drops it and stays free.
C19_QueuedTaskCancelled ==
  [][\A s \in Slot :
       /\ (req[s].pc = "wait" /\ fut[s].state = "pending" /\ Returns(s))
          => (fut'[s].state = "cancelled" /\ s \notin Running')
       /\ fut[s].state = "cancelled" => fut'[s].state = "cancelled"
       /\ (/\ fut[s].state = "cancelled"
           /\ queue # <<>> /\ Head(queue) = s /\ queue' = Tail(queue))
          => Running' = Running]_vars

\* the work item of a cancelled task was popped and dropped: the task is
\* neither queued nor running, and every worker is free
C19_Witness ==
  \E s \in Slot :
    /\ req[s].pc = "done" /\ fut[s].state = "cancelled"
    /\ \A i \in 1..Len(queue) : queue[i] # s
    /\ Running = {}

\* a < b for byte counts
Less(a, b) ==
  \/ Len(a) < Len(b)
  \/ /\ Len(a) = Len(b)
     /\ \E i \in 1..Len(a) :
          /\ DigitVal(a[i]) < DigitVal(b[i])
          /\ \A j \in 1..(i - 1) : a[j] = b[j]
Thousand == <<"1", "0", "0", "0">>
Million == <<"1", "0", "0", "0", "0", "0", "0">>
Billion == <<"1", "0", "0", "0", "0", "0", "0", "0", "0", "0">>
ClaimedUnit(n) ==
  IF Less(n, Thousand) THEN <<" ", "B">>
  ELSE IF Less(n, Million) THEN <<"K", "B">>
  ELSE IF Less(n, Billion) THEN <<"M", "B">>
  ELSE <<"G", "B">>
EndsWith(text, end) ==
  Len(text) >= Len(end) /\ SubSeq(text, Len(text) - Len(end) + 1, Len(text)) = end

\* C20: the size text ends with the unit of the decimal tier of the byte
\* count (B below 1000, KB below 1,000,000, MB below 1,000,000,000, else
\* GB); 500, 1500, 2500000 and 3000000000 give "500 B", "1.50 KB",
\* "2.50 MB" and "3.00 GB"; a format without a size counts 0 bytes and
\* gives "0 B".
C20_DecimalTiers ==
  ret.state = "returned" =>
    LET given == IF arg.filesize \notin {Absent, Zero} THEN arg.filesize
                 ELSE arg.filesize_approx
    IN
    /\ given # Absent => ret.size = given
    /\ given = Absent => (ret.size = Zero /\ ret.text = <<"0", " ", "B">>)
    /\ EndsWith(ret.text, ClaimedUnit(ret.size))
    /\ ret.size = <<"5", "0", "0">> => ret.text = <<"5", "0", "0", " ", "B">>
    /\ ret.size = <<"1", "5", "0", "0">>
         => ret.text = <<"1", ".", "5", "0", " ", "K", "B">>
    /\ ret.size = <<"2", "5", "0", "0", "0", "0", "0">>
         => ret.text = <<"2", ".", "5", "0", " ", "M", "B">>
    /\ ret.size = Billion
         => ret.text = <<"1", ".", "0", "0", " ", "G", "B">>
    /\ Len(ret.size) = 10 /\ ret.size[1] = "3" /\ (\A i \in 2..10 : ret.size[i] = "0")
         => ret.text = <<"3", ".", "0", "0", " ", "G", "B">>

\* a count just below a million was formatted in KB
C20_Witness ==
  /\ ret.state = "returned"
  /\ ret.size = <<"9", "9", "9", "9", "9", "9">>
  /\ ret.text = <<"1", "0", "0", "0", ".", "0", "0", " ", "K", "B">>

====
